---- MODULE Spec2Model ----
(***************************************************************************)
(* A model of termease (src/src/lib.rs): cd, cwd, mkdir, ls, rmdir, stat,  *)
(* execute and which, run by one thread against a Linux directory tree.    *)
(*                                                                         *)
(* A node of the tree is the sequence of the names that lead to it from    *)
(* the root (<<>> is "/").  A path argument is the sequence of its         *)
(* components as the caller wrote them; an absolute path starts with the   *)
(* component "/".  The process is assumed to have permission for every     *)
(* call it makes, and the tree has no symbolic links and no mount points   *)
(* below the root.  A panic ends the calling thread: no operation follows  *)
(* it.                                                                     *)
(***************************************************************************)
EXTENDS Naturals, Integers, Sequences, FiniteSets, TLC

VARIABLES dirs,     \* the directories that exist (nodes)
          files,    \* the regular files that exist (nodes)
          cwd,      \* the process-wide current directory (a location)
          status,   \* "running" or "panicked"
          op,       \* the last operation called
          arg,      \* its path argument
          flag,     \* which: index_bin; execute: args.is_some()
          ret,      \* what the call gave back: kind Ok / Err / Panic, msg
          out,      \* the value inside Ok: a set of paths
          pre,      \* dirs and cwd as they were when the last call began
          spawned   \* the child processes the last call started

vars == <<dirs, files, cwd, status, op, arg, flag, ret, out, pre, spawned>>

----------------------------------------------------------------------------
(* Bounds *)

\* the deepest node mkdir is let to create
MaxDepth == 3
\* the most directories that exist at once beyond the initial ones
MaxNew == 1

----------------------------------------------------------------------------
(* The tree the process starts in, and the arguments the caller passes *)

Root == <<>>
UsrBin == <<"usr", "bin">>
Bin == <<"bin">>

InitDirs == {Root, <<"usr">>, UsrBin, Bin, <<"tmp">>}

FileLayouts == { {<<"bin", "sh">>},
                 {<<"bin", "sh">>, <<"usr", "bin", "sh">>} }

PathArgs == { <<"/">>, <<"/", "tmp">>, <<"/", "tmp", "t">>,
              <<"/", "bin", "sh">>, <<"/", "usr", "bin">>, <<"/", "nx", "t">>,
              <<".">>, <<"..">>, <<"t">>, <<"..", "t">> }

SearchNames == {"sh", "t"}

----------------------------------------------------------------------------
(* Path resolution, as the kernel does it for Path::exists, Path::is_dir,  *)
(* Path::metadata, chdir, mkdir, rmdir and read_dir.                       *)
(*                                                                         *)
(* A location is [p, k]: the node p, of which the last k directories have  *)
(* been removed while the process still stood in them (k = 0: p is in the  *)
(* tree).  A removed directory has no entries; "." stays in it and ".."    *)
(* leads to the directory it was removed from.                             *)

Live(n) == [p |-> n, k |-> 0]
NONE == [p |-> <<>>, k |-> -1]

Parent(n) == IF n = <<>> THEN <<>> ELSE SubSeq(n, 1, Len(n) - 1)

Step(cur, c, d, f) ==
    IF cur = NONE THEN NONE
    ELSE IF cur.k > 0
         THEN IF c = "." THEN cur
              ELSE IF c = ".." THEN [p |-> Parent(cur.p), k |-> cur.k - 1]
              ELSE NONE
    ELSE IF cur.p \notin d THEN NONE
    ELSE IF c = "." THEN cur
    ELSE IF c = ".." THEN Live(Parent(cur.p))
    ELSE IF Append(cur.p, c) \in d \cup f THEN Live(Append(cur.p, c))
    ELSE NONE

RECURSIVE Walk(_, _, _, _)
Walk(cur, comps, d, f) ==
    IF comps = <<>> THEN cur
    ELSE Walk(Step(cur, Head(comps), d, f), Tail(comps), d, f)

IsAbsolute(path) == path # <<>> /\ Head(path) = "/"

Resolve(path, d, f, c) ==
    IF path = <<>> THEN NONE
    ELSE IF IsAbsolute(path) THEN Walk(Live(Root), Tail(path), d, f)
    ELSE Walk(c, path, d, f)

\* Path::exists
exists(path, d, f, c) == Resolve(path, d, f, c) # NONE

\* Path::is_dir
is_dir(path, d, f, c) ==
    LET r == Resolve(path, d, f, c)
    IN  r # NONE /\ (r.k > 0 \/ r.p \in d)

Last(path) == path[Len(path)]
Front(path) == SubSeq(path, 1, Len(path) - 1)

\* the entries of a directory location
Children(r, d, f) ==
    IF r.k > 0 THEN {}
    ELSE {n \in d \cup f : n # <<>> /\ Parent(n) = r.p}

\* the absolute path string of a node
AbsPath(n) == <<"/">> \o n

----------------------------------------------------------------------------
(* Results *)

Ok == [kind |-> "Ok", msg |-> ""]
Err(m) == [kind |-> "Err", msg |-> m]
Panic(m) == [kind |-> "Panic", msg |-> m]

Snapshot == [dirs |-> dirs, cwd |-> cwd]

Init ==
    /\ dirs = InitDirs
    /\ files \in FileLayouts
    /\ cwd = Live(<<"tmp">>)
    /\ status = "running"
    /\ op = "init"
    /\ arg = <<>>
    /\ flag = FALSE
    /\ ret = Ok
    /\ out = {}
    /\ pre = [dirs |-> InitDirs, cwd |-> Live(<<"tmp">>)]
    /\ spawned = {}

\* the bookkeeping every call shares
Called(o, a, fl, r) ==
    /\ status = "running"
    /\ op' = o
    /\ arg' = a
    /\ flag' = fl
    /\ ret' = r
    /\ status' = IF r.kind = "Panic" THEN "panicked" ELSE "running"
    /\ pre' = Snapshot
    /\ UNCHANGED files

----------------------------------------------------------------------------
(* cd *)

cdRet(path, d, f, c) ==
    IF ~exists(path, d, f, c) THEN Panic("directory does not exist")
    ELSE IF ~is_dir(path, d, f, c) THEN Panic("path is not a directory")
    ELSE Ok

\* as set_current_dir, were a relative path not followed
set_current_dirAbsoluteOnly(path, d, f, c) ==
    IF IsAbsolute(path) THEN Resolve(path, d, f, c) ELSE c

\* env::set_current_dir
set_current_dir(path, d, f, c) == Resolve(path, d, f, c)

cd(path) ==
    LET r == cdRet(path, dirs, files, cwd)
    IN  /\ Called("cd", path, FALSE, r)
        /\ cwd' = IF r = Ok THEN set_current_dir(path, dirs, files, cwd)
                  ELSE cwd
        /\ out' = {}
        /\ spawned' = {}
        /\ UNCHANGED dirs

(* cwd *)

\* env::current_dir fails once the current directory has been removed
cwdRet(c) ==
    IF c.k > 0 THEN Panic("NotFound")
    ELSE Ok

cwdOut(c) == IF c.k > 0 THEN {} ELSE {AbsPath(c.p)}

getcwd ==
    /\ Called("cwd", <<>>, FALSE, cwdRet(cwd))
    /\ out' = cwdOut(cwd)
    /\ spawned' = {}
    /\ UNCHANGED <<dirs, cwd>>

----------------------------------------------------------------------------
(* mkdir *)

\* the io::ErrorKind of a failed lookup: ENOTDIR when the path runs through
\* a regular file, ENOENT otherwise
LookupError(path, d, f, c) ==
    IF \E i \in 1..(Len(path) - 1) :
          LET r == Resolve(SubSeq(path, 1, i), d, f, c)
          IN  r # NONE /\ r.k = 0 /\ r.p \in f
    THEN "NotADirectory"
    ELSE "NotFound"

\* the directory a new entry would be made in
ParentLoc(path, d, f, c) ==
    IF Len(path) = 1 THEN (IF IsAbsolute(path) THEN NONE ELSE c)
    ELSE Resolve(Front(path), d, f, c)

\* fs::create_dir on a path that does not exist
create_dirRet(path, d, f, c) ==
    LET par == ParentLoc(path, d, f, c)
    IN  IF par = NONE THEN Err(LookupError(path, d, f, c))
        ELSE IF par.k > 0 THEN Err("NotFound")
        ELSE IF par.p \notin d THEN Err("NotADirectory")
        ELSE IF Last(path) \in {".", "..", "/"} THEN Err("AlreadyExists")
        ELSE Ok

\* as mkdirRet, were the existence check left out
mkdirRetUnchecked(path, d, f, c) == create_dirRet(path, d, f, c)

mkdirRet(path, d, f, c) ==
    IF exists(path, d, f, c) THEN Panic("directory already exists")
    ELSE create_dirRet(path, d, f, c)

mkdirDirs(path, d, f, c) ==
    IF mkdirRet(path, d, f, c) = Ok
    THEN d \cup {Append(ParentLoc(path, d, f, c).p, Last(path))}
    ELSE d

\* the model lets mkdir create only within its bounds
WithinBounds(d) ==
    /\ \A n \in d : Len(n) <= MaxDepth
    /\ Cardinality(d \ InitDirs) <= MaxNew

mkdir(path) ==
    /\ WithinBounds(mkdirDirs(path, dirs, files, cwd))
    /\ Called("mkdir", path, FALSE, mkdirRet(path, dirs, files, cwd))
    /\ dirs' = mkdirDirs(path, dirs, files, cwd)
    /\ out' = {}
    /\ spawned' = {}
    /\ UNCHANGED cwd

----------------------------------------------------------------------------
(* ls *)

\* as lsRet, were the is_dir check left out
lsRetNoDirCheck(path, d, f, c) ==
    IF ~exists(path, d, f, c) THEN Err("directory does not exist") ELSE Ok

lsRet(path, d, f, c) ==
    IF ~exists(path, d, f, c) THEN Err("directory does not exist")
    ELSE IF ~is_dir(path, d, f, c) THEN Err("path is not a directory")
    ELSE Ok

\* as read_dir, were subdirectories skipped as which skips them
read_dirFilesOnly(path, d, f, c) ==
    {Append(path, Last(n)) : n \in Children(Resolve(path, d, f, c), {}, f)}

\* fs::read_dir and DirEntry::path: the argument joined with each entry's
\* name.  The order of the vector is the kernel's and is left out.
read_dir(path, d, f, c) ==
    {Append(path, Last(n)) : n \in Children(Resolve(path, d, f, c), d, f)}

lsOut(path, d, f, c) ==
    IF lsRet(path, d, f, c) = Ok THEN read_dir(path, d, f, c) ELSE {}

ls(path) ==
    /\ Called("ls", path, FALSE, lsRet(path, dirs, files, cwd))
    /\ out' = lsOut(path, dirs, files, cwd)
    /\ spawned' = {}
    /\ UNCHANGED <<dirs, cwd>>

----------------------------------------------------------------------------
(* rmdir *)

\* fs::remove_dir on a path that exists
remove_dirRet(path, d, f, c) ==
    LET r == Resolve(path, d, f, c)
    IN  IF Last(path) = "." THEN Err("InvalidInput")
        ELSE IF Last(path) = ".." THEN Err("DirectoryNotEmpty")
        ELSE IF r.p = Root THEN Err("ResourceBusy")
        ELSE IF r.p \in f THEN Err("NotADirectory")
        ELSE IF Children(r, d, f) # {} THEN Err("DirectoryNotEmpty")
        ELSE Ok

rmdirRet(path, d, f, c) ==
    IF exists(path, d, f, c)
    THEN LET e == remove_dirRet(path, d, f, c)
         IN  IF e = Ok THEN Ok ELSE Panic(e.msg)
    ELSE Err("directory does not exist")

\* as rmdirDirs, were the directory left in place
rmdirDirsKept(path, d, f, c) == d

rmdirDirs(path, d, f, c) ==
    IF rmdirRet(path, d, f, c) = Ok THEN d \ {Resolve(path, d, f, c).p} ELSE d

\* the process keeps standing in a directory that is removed under it
rmdirCwd(path, d, f, c) ==
    IF /\ rmdirRet(path, d, f, c) = Ok
       /\ Resolve(path, d, f, c).p = SubSeq(c.p, 1, Len(c.p) - c.k)
    THEN [c EXCEPT !.k = @ + 1]
    ELSE c

rmdir(path) ==
    /\ Called("rmdir", path, FALSE, rmdirRet(path, dirs, files, cwd))
    /\ dirs' = rmdirDirs(path, dirs, files, cwd)
    /\ cwd' = rmdirCwd(path, dirs, files, cwd)
    /\ out' = {}
    /\ spawned' = {}

----------------------------------------------------------------------------
(* stat *)

\* Path::metadata(...).expect(...); the table is printed, nothing is returned
statRet(path, d, f, c) ==
    IF ~exists(path, d, f, c) THEN Panic("Could not get metadata")
    ELSE Ok

stat(path) ==
    /\ Called("stat", path, FALSE, statRet(path, dirs, files, cwd))
    /\ out' = {}
    /\ spawned' = {}
    /\ UNCHANGED <<dirs, cwd>>

----------------------------------------------------------------------------
(* execute *)

\* Path::file_name: the last component when it is a normal one; a trailing
\* "." is dropped first.  <<>> stands for None.
RECURSIVE file_name(_)
file_name(path) ==
    IF path = <<>> THEN <<>>
    ELSE IF Last(path) = "." /\ Len(path) > 1 THEN file_name(Front(path))
    ELSE IF Last(path) \in {"/", ".", ".."} THEN <<>>
    ELSE <<Last(path)>>

\* started: whether the OS finds the name on its search path and starts it
executeRet(path, started, d, f, c) ==
    IF file_name(path) = <<>> THEN Panic("No final component of file name")
    ELSE IF ~exists(path, d, f, c) THEN Panic("Location doesn't exist")
    ELSE IF ~started THEN Panic("command failed to start")
    ELSE Ok

\* Command::new(name)[.args(params)].spawn(): the program name of the child
\* process the call starts, of which the launcher keeps no handle
executeSpawned(path, started, d, f, c) ==
    IF executeRet(path, started, d, f, c) = Ok THEN {file_name(path)} ELSE {}

execute(path, has_args, started) ==
    /\ Called("execute", path, has_args,
              executeRet(path, started, dirs, files, cwd))
    /\ spawned' = executeSpawned(path, started, dirs, files, cwd)
    /\ out' = {}
    /\ UNCHANGED <<dirs, cwd>>

----------------------------------------------------------------------------
(* which *)

search_paths(index_bin) == IF index_bin THEN <<UsrBin, Bin>> ELSE <<UsrBin>>

\* the entries the scan compares equal to name: the non-directories of the
\* search directories that carry it
whichMatches(name, index_bin, d, f) ==
    {n \in f : /\ \E i \in DOMAIN search_paths(index_bin) :
                     Parent(n) = search_paths(index_bin)[i]
               /\ Last(n) = name}

\* fs::read_dir(path).unwrap() panics on the first search directory that
\* cannot be read.  A match builds an Ok that is bound to _ and dropped; the
\* loops run on and the function ends in Err("not found").
whichRet(name, index_bin, d, f) ==
    LET sp == search_paths(index_bin)
        bad == {i \in DOMAIN sp : sp[i] \notin d}
    IN  IF bad # {}
        THEN LET i == CHOOSE j \in bad : \A l \in bad : j <= l
             IN  Panic(IF sp[i] \in f THEN "NotADirectory" ELSE "NotFound")
        ELSE Err("not found")

which(name, index_bin) ==
    /\ Called("which", <<name>>, index_bin,
              whichRet(name, index_bin, dirs, files))
    /\ out' = {}
    /\ spawned' = {}
    /\ UNCHANGED <<dirs, cwd>>

----------------------------------------------------------------------------
Next ==
    \/ \E path \in PathArgs : cd(path)
    \/ getcwd
    \/ \E path \in PathArgs : mkdir(path)
    \/ \E path \in PathArgs : ls(path)
    \/ \E path \in PathArgs : rmdir(path)
    \/ \E path \in PathArgs : stat(path)
    \/ \E path \in PathArgs, has_args \in BOOLEAN, started \in BOOLEAN :
          execute(path, has_args, started)
    \/ \E name \in SearchNames, index_bin \in BOOLEAN : which(name, index_bin)

Spec == Init /\ [][Next]_vars

----------------------------------------------------------------------------
(* What the properties below speak of *)

\* the call that has just returned was made on `pre`
Missing(path) == Resolve(path, pre.dirs, files, pre.cwd) = NONE
Target(path) == Resolve(path, pre.dirs, files, pre.cwd)
Unchanged == dirs = pre.dirs /\ cwd = pre.cwd

\* the entries of node p, read off the tree
Kids(p, d, f) ==
    {n \in d \cup f : Len(n) = Len(p) + 1 /\ SubSeq(n, 1, Len(p)) = p}

\* the absolute location a path names, worked out on the text alone
RECURSIVE LexWalk(_, _)
LexWalk(n, comps) ==
    IF comps = <<>> THEN n
    ELSE LexWalk(IF Head(comps) = "." THEN n
                 ELSE IF Head(comps) = ".." THEN Parent(n)
                 ELSE Append(n, Head(comps)),
                 Tail(comps))

AbsLocation(path, base) ==
    IF IsAbsolute(path) THEN LexWalk(Root, Tail(path)) ELSE LexWalk(base, path)

----------------------------------------------------------------------------
\* C1: for every path that does not exist, ls, stat and rmdir each fail with
\* a NotFound error that is returned to the caller.
C1_NotFoundReturned ==
    (op \in {"ls", "stat", "rmdir"} /\ Missing(arg))
        => (ret.kind = "Err" /\ ret.msg = "directory does not exist")

\* C2: which(name, false) answers not found for a name that only /bin holds
\* as a non-directory, and which(name, true) finds it and returns success.
C2_WhichFindsInBin ==
    (/\ op = "which"
     /\ {UsrBin, Bin} \subseteq dirs
     /\ Append(Bin, arg[1]) \in files
     /\ Append(UsrBin, arg[1]) \notin dirs \cup files)
        => IF flag THEN ret.kind = "Ok" ELSE ret = Err("not found")

\* C3: rmdir of an existing directory that has an entry fails with a NotEmpty
\* error returned to the caller, and the directory and its entries remain.
\* (Stated for directories other than the root that are named by their own
\* name: the kernel refuses "/", "." and ".." on other grounds.)
C3_NotEmptyReturned ==
    (/\ op = "rmdir"
     /\ ~Missing(arg)
     /\ Target(arg).k = 0
     /\ Target(arg).p \in pre.dirs \ {Root}
     /\ Last(arg) \notin {".", ".."}
     /\ Kids(Target(arg).p, pre.dirs, files) # {})
        => (ret.kind = "Err" /\ ret.msg = "DirectoryNotEmpty" /\ Unchanged)

\* C4: cd of a path that does not exist fails with NotFound, cd of a path that
\* is not a directory with NotADirectory; both are returned to the caller as
\* an error result and leave the current directory as it was.
C4_CdErrorsReturned ==
    (op = "cd" /\ (Missing(arg) \/ Target(arg).p \in files))
        => /\ ret.kind = "Err"
           /\ ret.msg = IF Missing(arg) THEN "directory does not exist"
                        ELSE "path is not a directory"
           /\ cwd = pre.cwd

\* C5: a mkdir(p) that follows a successful mkdir(p) fails with AlreadyExists
\* and leaves the tree as the first call made it.
C5_SecondMkdirFails ==
    [][(op = "mkdir" /\ ret = Ok /\ op' = "mkdir" /\ arg' = arg)
          => /\ ret'.kind # "Ok"
             /\ ret'.msg = "directory already exists"
             /\ dirs' = dirs
             /\ files' = files]_vars

C5_Witness ==
    /\ op = "mkdir"
    /\ arg = <<"t">>
    /\ ret.msg = "directory already exists"
    /\ Target(arg).p \in dirs \ InitDirs

\* C6: for a path p that does not exist and whose parent directory exists,
\* mkdir(p) succeeds and makes p a directory, and the rmdir(p) that follows
\* succeeds and leaves the tree and the current directory as they were before
\* the mkdir.
ParentExists(path, d, f, c) ==
    LET par == ParentLoc(path, d, f, c)
    IN  par # NONE /\ par.k = 0 /\ par.p \in d

C6_MkdirRmdirRoundTrip ==
    [][/\ (/\ op' = "mkdir"
           /\ ~exists(arg', dirs, files, cwd)
           /\ ParentExists(arg', dirs, files, cwd))
             => /\ ret' = Ok
                /\ AbsLocation(arg', cwd.p) \in dirs' \ dirs
                /\ is_dir(arg', dirs', files', cwd')
       /\ (op = "mkdir" /\ ret = Ok /\ op' = "rmdir" /\ arg' = arg)
             => /\ ret' = Ok
                /\ dirs' = pre.dirs
                /\ cwd' = pre.cwd
                /\ files' = files]_vars

C6_Witness ==
    /\ op = "rmdir"
    /\ arg = <<"..", "t">>
    /\ ret = Ok
    /\ AbsLocation(arg, pre.cwd.p) \in pre.dirs \ dirs
    /\ cwd.k = 0

\* C7: a successful cd(d) to an existing directory d (one that is in the
\* tree when cd is called) makes cwd() return the absolute location of d;
\* cd("..") from a child of q makes cwd() return q.
C7_CdSetsCwd ==
    (op = "cd" /\ ret = Ok /\ ~Missing(arg) /\ Target(arg).k = 0)
        => /\ cwdRet(cwd) = Ok
           /\ cwdOut(cwd) = {AbsPath(AbsLocation(arg, pre.cwd.p))}
           /\ (arg = <<"..">> /\ pre.cwd.p # Root)
                 => /\ Len(pre.cwd.p) = Len(cwd.p) + 1
                    /\ cwdOut(cwd) = {AbsPath(Parent(pre.cwd.p))}

C7_Witness ==
    /\ op = "cd"
    /\ arg = <<"..">>
    /\ ret = Ok
    /\ pre.cwd = Live(<<"tmp", "t">>)
    /\ cwdOut(cwd) = {<<"/", "tmp">>}

\* C8: ls of an existing path that is not a directory fails with
\* NotADirectory, returned as an error result, and changes neither the tree
\* nor the current directory.
C8_LsOnFile ==
    (op = "ls" /\ ~Missing(arg) /\ Target(arg).p \in files)
        => (ret = Err("path is not a directory") /\ out = {} /\ Unchanged)

C8_Witness ==
    /\ op = "ls"
    /\ arg = <<"/", "bin", "sh">>
    /\ ret.kind = "Err"
    /\ pre.dirs # InitDirs

LsDot == op' = "ls" /\ arg' = <<".">>

C10_LsDotListsCwd ==
    [][/\ (LsDot /\ cwdRet(cwd') = Ok)
             => /\ ret' = Ok
                /\ out' = {<<".", Last(n)>> : n \in Kids(cwd'.p, dirs', files')}
       /\ (op = "mkdir" /\ arg = <<"t">> /\ ret = Ok /\ LsDot)
             => <<".", "t">> \in out'
       /\ (op = "rmdir" /\ arg = <<"t">> /\ ret = Ok /\ LsDot)
             => (ret' = Ok /\ <<".", "t">> \notin out')
       /\ (/\ op = "cd" /\ ret = Ok /\ LsDot
           /\ pre.cwd.k = 0 /\ cwd.k = 0
           /\ {Last(n) : n \in Kids(pre.cwd.p, dirs, files)}
                 # {Last(n) : n \in Kids(cwd.p, dirs, files)})
             => out' # lsOut(<<".">>, pre.dirs, files, pre.cwd)]_vars

C10_Witness ==
    /\ op = "ls"
    /\ arg = <<".">>
    /\ ret = Ok
    /\ cwd = Live(<<"tmp">>)
    /\ out = {<<".", "t">>}
====
